---- MODULE Spec2Model ----
(***************************************************************************)
(* Model of the Backseat test runner (src/src/main.rs).                    *)
(*                                                                         *)
(* Strings are sequences of one-character strings.  The bytes captured     *)
(* from a child's stderr are sequences over the same characters plus       *)
(* InvalidByte, which stands for a byte sequence that is not valid UTF-8.  *)
(***************************************************************************)
EXTENDS Integers, Sequences, FiniteSets, TLC

(* ------------------------------ bounds -------------------------------- *)

\* number of test files found by the glob walker
NumFiles == 2

Files == 1..NumFiles

\* the parser is applied to every directive of at most MaxMessages messages
\* of at most MaxMessageLen characters, and to every first line whose text
\* after the `=` has at most MaxRhsLen characters
MaxMessages == 2
MaxMessageLen == 1
MaxRhsLen == 3

\* one VM stage is run with pipes that hold at most PipeCapacity bytes, a
\* compiler output of at most MaxInput bytes and a child that writes at
\* most MaxBurst bytes between two reads
PipeCapacity == 1
MaxInput == 3
MaxBurst == 2

(* --------------------------- string helpers --------------------------- *)

\* char::is_whitespace, restricted to the characters of the model
is_whitespace(c) == c \in {" ", "\t", "\n", "\r"}

RECURSIVE trim_start(_)
trim_start(s) ==
    IF s # <<>> /\ is_whitespace(Head(s)) THEN trim_start(Tail(s)) ELSE s

RECURSIVE trim_end(_)
trim_end(s) ==
    IF s # <<>> /\ is_whitespace(s[Len(s)])
    THEN trim_end(SubSeq(s, 1, Len(s) - 1))
    ELSE s

\* str::trim
trim(s) == trim_end(trim_start(s))

\* str::find(c): the index of the first c of s, 0 when there is none
find(s, c) ==
    IF \E i \in 1..Len(s) : s[i] = c
    THEN CHOOSE i \in 1..Len(s) : s[i] = c /\ \A j \in 1..(i - 1) : s[j] # c
    ELSE 0

\* str::split(c): the parts between the occurrences of c; never empty
RECURSIVE split(_, _)
split(s, c) ==
    LET at == find(s, c)
    IN  IF at = 0 THEN <<s>>
        ELSE <<SubSeq(s, 1, at - 1)>> \o split(SubSeq(s, at + 1, Len(s)), c)

\* str::starts_with
starts_with(s, p) == Len(s) >= Len(p) /\ SubSeq(s, 1, Len(p)) = p

\* str::ends_with
ends_with(s, p) ==
    Len(s) >= Len(p) /\ SubSeq(s, Len(s) - Len(p) + 1, Len(s)) = p

\* Option<&str>
None == [some |-> FALSE, val |-> <<>>]
Some(v) == [some |-> TRUE, val |-> v]

\* str::strip_prefix
strip_prefix(s, p) ==
    IF starts_with(s, p) THEN Some(SubSeq(s, Len(p) + 1, Len(s))) ELSE None

\* str::strip_suffix
strip_suffix(s, p) ==
    IF ends_with(s, p) THEN Some(SubSeq(s, 1, Len(s) - Len(p))) ELSE None

\* str::contains
contains(haystack, needle) ==
    \E i \in 0..(Len(haystack) - Len(needle)) :
        SubSeq(haystack, i + 1, i + Len(needle)) = needle

\* a byte sequence that is not valid UTF-8, and U+FFFD
InvalidByte == "<ff>"
ReplacementChar == "<fffd>"

\* String::from_utf8_lossy
from_utf8_lossy(bytes) ==
    [i \in 1..Len(bytes) |->
        IF bytes[i] = InvalidByte THEN ReplacementChar ELSE bytes[i]]

\* String::from_utf8: Err on a sequence that is not valid UTF-8
from_utf8(bytes) ==
    IF \E i \in 1..Len(bytes) : bytes[i] = InvalidByte
    THEN None
    ELSE Some(bytes)

(* ------------------------ the directive parser ------------------------ *)

CommentMarker == <<"/", "/">>
Quote == <<"\"">>
fails_with == <<"f", "a", "i", "l", "s", "_", "w", "i", "t", "h">>

\* enum TestOutcome, and the Err of anyhow::Result<TestOutcome>
Finished == [tag |-> "Finished", error_messages |-> <<>>]
Aborted(msgs) == [tag |-> "Aborted", error_messages |-> msgs]
ParseErr(what) == [tag |-> what, error_messages |-> <<>>]

IsErr(outcome) == outcome.tag \notin {"Finished", "Aborted"}

\* the loop over the comma-separated messages: the first message without
\* its quotes ends the loop with an error
RECURSIVE parse_messages(_, _)
parse_messages(messages, message_vector) ==
    IF messages = <<>> THEN Aborted(message_vector)
    ELSE LET message == trim(Head(messages))
             opened == strip_prefix(message, Quote)
         IN  IF ~opened.some THEN ParseErr("prefix not found")
             ELSE LET closed == strip_suffix(opened.val, Quote)
                  IN  IF ~closed.some THEN ParseErr("suffix not found")
                      ELSE parse_messages(Tail(messages),
                                          Append(message_vector, closed.val))

\* the parser without the comparison of the left-hand side: every
\* assignment in a leading comment is taken for a directive
determine_expected_outcome_any_lhs(input_file) ==
    LET first_line == trim(split(input_file, "\n")[1])
    IN  IF starts_with(first_line, CommentMarker)
        THEN LET test_runner_command ==
                     trim(strip_prefix(first_line, CommentMarker).val)
                 parts == split(test_runner_command, "=")
             IN  IF Len(parts) >= 2
                 THEN parse_messages(split(trim(parts[2]), ","), <<>>)
                 ELSE Finished
        ELSE Finished

\* determine_expected_outcome, from the text read_to_string returned
determine_expected_outcome(input_file) ==
    LET first_line == trim(split(input_file, "\n")[1])
    IN  IF starts_with(first_line, CommentMarker)
        THEN LET test_runner_command ==
                     trim(strip_prefix(first_line, CommentMarker).val)
                 parts == split(test_runner_command, "=")
             IN  IF Len(parts) >= 2 /\ trim(parts[1]) = fails_with
                 THEN parse_messages(split(trim(parts[2]), ","), <<>>)
                 ELSE Finished
        ELSE Finished

(* ------------------------ the outcome evaluator ----------------------- *)

\* enum TestResultKind inside anyhow::Result<TestResult>: Ok(Success),
\* Ok(Failure(message)) or Err(error)
NoResult == [kind |-> "None", msg |-> <<>>]
Success == [kind |-> "Success", msg |-> <<>>]
Failure(error_message) == [kind |-> "Failure", msg |-> error_message]
Err(error) == [kind |-> "Err", msg |-> <<error>>]

\* the literal parts of the diagnostics, one element each
FinishedButExpected ==
    <<"\ttest execution finished, but the following error messages were expected:">>
WrongErrorMessage ==
    <<"\ttest aborted as expected, but with wrong error message:\n\texpected: ">>
AndExpected == <<"\t          and ">>
Got == <<"\t     got: ">>
Tabs == <<"\t\t">>

quoted(message) == Quote \o message \o Quote

\* the for loops that append one formatted part per message
RECURSIVE format_each(_, _)
format_each(lead, messages) ==
    IF messages = <<>> THEN <<>>
    ELSE lead \o quoted(Head(messages)) \o format_each(lead, Tail(messages))

\* Iterator::any in place of Iterator::all
any_contained(stderr_string, error_messages) ==
    \E i \in 1..Len(error_messages) : contains(stderr_string, error_messages[i])

\* Iterator::all over the expected messages
all_contained(stderr_string, error_messages) ==
    \A i \in 1..Len(error_messages) : contains(stderr_string, error_messages[i])

\* validate_error_messages: Ok(()) is Success, Err(anyhow!(..)) carries
\* the diagnostic
validate_error_messages(stderr, error_messages) ==
    LET stderr_string == from_utf8_lossy(stderr)
    IN  IF all_contained(stderr_string, error_messages)
        THEN Success
        ELSE Failure(WrongErrorMessage \o quoted(error_messages[1])
                     \o format_each(AndExpected, Tail(error_messages))
                     \o Got \o quoted(trim(stderr_string)))

\* the arm for a finished pipeline without the check of the expectation
result_when_finished_unchecked(expected_outcome) == Success

\* the arm of main for a stage that exited successfully at the end of the
\* pipeline
result_when_finished(expected_outcome) ==
    IF expected_outcome.tag = "Aborted"
    THEN Failure(FinishedButExpected
                 \o format_each(Tabs, expected_outcome.error_messages))
    ELSE Success

\* String::from_utf8(stderr)? of the arms where no failure was expected
stderr_as_failure(stderr) ==
    LET text == from_utf8(stderr)
    IN  IF text.some THEN Failure(text.val) ELSE Err("FromUtf8Error")

\* the arm of main for a stage that exited with a failure status
result_when_aborted(expected_outcome, stderr) ==
    IF expected_outcome.tag = "Aborted"
    THEN validate_error_messages(stderr, expected_outcome.error_messages)
    ELSE stderr_as_failure(stderr)

(* --------------------------- the test run ----------------------------- *)

VARIABLES
    pc,                \* per test file: where its task of the par_iter is
    content,           \* per test file: the text read_to_string returned
    expected_outcome,  \* per test file: the parsed TestOutcome
    command_result,    \* per test file: the Output of the compiler stage
    backseater_result, \* per test file: the Output of the VM stage
    result,            \* per test file: what the map closure returned
    reported,          \* per test file: the result lines printed for it
    tests_run,         \* AtomicUsize
    tests_failed,      \* AtomicUsize
    main_pc,           \* where main is
    summary,           \* the summary lines printed, as <<run, ok, failed>>
    exit_status,       \* the exit status of the process, once it has one
    input_file,        \* the text handed to one call of the parser
    parsed,            \* what that call returned
    harness,           \* where one call of child_with_pipe_args is
    unwritten,         \* the part of compiler_output not yet written
    writer,            \* the thread that writes the child's stdin
    pipe,              \* the bytes held by the stdin, stdout, stderr pipes
    child,             \* the child process
    captured,          \* what wait_with_output has read so far
    vm_expected,       \* the expectation of the test of that call
    vm_result          \* the result of the test of that call

run_vars == <<pc, content, expected_outcome, command_result,
              backseater_result, result, reported, tests_run, tests_failed,
              main_pc, summary, exit_status>>
parser_vars == <<input_file, parsed>>
pipe_vars == <<harness, unwritten, writer, pipe, child, captured, vm_expected,
               vm_result>>
other_vars == <<parser_vars, pipe_vars>>
vars == <<run_vars, parser_vars, pipe_vars>>

\* exit statuses: main returned Ok(()), main returned Err, a panic unwound
\* out of main
ExitOk == 0
ExitErr == 1
ExitPanic == 101

\* exit_status of a process that has not exited, and of one that has
Running == <<>>
Exited(status) == <<status>>

\* the texts of the test files of the run
Directive(messages) ==
    CommentMarker \o <<" ">> \o fails_with \o <<" ", "=", " ">> \o messages
TestFileContents ==
    { <<"l", "e", "t", "\n", "/", "/">>,
      Directive(quoted(<<"a">>)) \o <<"\n", "x">>,
      Directive(quoted(<<"a">>) \o <<",", " ">> \o quoted(<<"b">>)),
      Directive(<<"a">>) }

\* what a failing stage may have written to its stderr
StderrTexts ==
    { <<>>, <<"a">>, <<"b", "x", "a", "\n">>, <<InvalidByte, "b">> }

NotParsed == [tag |-> "NotParsed", error_messages |-> <<>>]

NotRun == [status |-> "none", stderr |-> <<>>]
Output(status, stderr) == [status |-> status, stderr |-> stderr]

\* what running a child to completion may give: a spawn error, a success
\* status or a failure status with some stderr
ChildOutcomes ==
    { Output("spawn_error", <<>>), Output("success", <<>>) }
    \cup { Output("failure", e) : e \in StderrTexts }

InitRun ==
    /\ pc = [t \in Files |-> "queued"]
    /\ content = [t \in Files |-> <<>>]
    /\ expected_outcome = [t \in Files |-> Finished]
    /\ command_result = [t \in Files |-> NotRun]
    /\ backseater_result = [t \in Files |-> NotRun]
    /\ result = [t \in Files |-> NoResult]
    /\ reported = [t \in Files |-> <<>>]
    /\ tests_run = 0
    /\ tests_failed = 0
    /\ main_pc = "par_iter"
    /\ summary = <<>>
    /\ exit_status = Running

\* no call of the parser
ParserIdle ==
    /\ input_file = <<>>
    /\ parsed = NotParsed

NoChild ==
    [pc |-> "unspawned", kind |-> "none", stdin_open |-> FALSE,
     stream |-> "stdout", left |-> 0, status |-> "none"]
EmptyPipes == [stdin |-> <<>>, stdout |-> <<>>, stderr |-> <<>>]
NothingCaptured == [stdout |-> <<>>, stderr |-> <<>>]

\* no call of child_with_pipe_args
PipeIdle ==
    /\ harness = "idle"
    /\ unwritten = <<>>
    /\ writer = "unspawned"
    /\ pipe = EmptyPipes
    /\ child = NoChild
    /\ captured = NothingCaptured
    /\ vm_expected = Finished
    /\ vm_result = NoResult

Init ==
    /\ InitRun
    /\ ParserIdle
    /\ PipeIdle

\* a load and a store in place of fetch_add, the load having seen the
\* counter before any other task's store
fetch_add_stale(counter, val) == val

\* AtomicUsize::fetch_add: one indivisible read-modify-write
fetch_add(counter, val) == counter + val

\* a status check that takes every exit status for a success
success_always(output) == TRUE

\* ExitStatus::success
success(output) == output.status = "success"

\* the map closure returns r for test t
Return(t, r) ==
    /\ result' = [result EXCEPT ![t] = r]
    /\ pc' = [pc EXCEPT ![t] = "returned"]

\* lines 68-69: the task of t starts, reads the file and parses its first
\* line; a file that cannot be read and a parse error both leave the
\* closure through `?`
Parse(t) ==
    /\ main_pc = "par_iter"
    /\ UNCHANGED other_vars
    /\ pc[t] = "queued"
    /\ \E readable \in BOOLEAN, text \in TestFileContents :
        IF ~readable
        THEN /\ Return(t, Err("io::Error"))
             /\ UNCHANGED <<content, expected_outcome>>
        ELSE LET outcome == determine_expected_outcome(text)
             IN  /\ content' = [content EXCEPT ![t] = text]
                 /\ IF IsErr(outcome)
                    THEN /\ Return(t, Err(outcome.tag))
                         /\ UNCHANGED expected_outcome
                    ELSE /\ expected_outcome' =
                                [expected_outcome EXCEPT ![t] = outcome]
                         /\ pc' = [pc EXCEPT ![t] = "compile"]
                         /\ UNCHANGED result
    /\ UNCHANGED <<command_result, backseater_result, reported, tests_run,
                   tests_failed, main_pc, summary, exit_status>>

\* lines 72-78 and 113-125: the compiler stage runs to completion
Compile(t) ==
    /\ main_pc = "par_iter"
    /\ UNCHANGED other_vars
    /\ pc[t] = "compile"
    /\ \E out \in ChildOutcomes :
        /\ command_result' = [command_result EXCEPT ![t] = out]
        /\ IF out.status = "spawn_error" THEN Return(t, Err("io::Error"))
           ELSE IF success(out)
           THEN /\ pc' = [pc EXCEPT ![t] = "backseater"]
                /\ UNCHANGED result
           ELSE Return(t, result_when_aborted(expected_outcome[t],
                                              out.stderr))
    /\ UNCHANGED <<content, expected_outcome, backseater_result, reported,
                   tests_run, tests_failed, main_pc, summary, exit_status>>

\* the VM stage with the expectation kept in one place shared by all tasks
\* instead of in the task
Backseater_shared_expectation(t) ==
    /\ main_pc = "par_iter"
    /\ UNCHANGED other_vars
    /\ pc[t] = "backseater"
    /\ \E out \in ChildOutcomes :
        /\ backseater_result' = [backseater_result EXCEPT ![t] = out]
        /\ IF out.status = "spawn_error" THEN Return(t, Err("io::Error"))
           ELSE IF success(out)
           THEN Return(t, result_when_finished(expected_outcome[1]))
           ELSE Return(t, result_when_aborted(expected_outcome[1],
                                              out.stderr))
    /\ UNCHANGED <<content, expected_outcome, command_result, reported,
                   tests_run, tests_failed, main_pc, summary, exit_status>>

\* lines 80-111: the VM stage runs to completion on the compiler's output
Backseater(t) ==
    /\ main_pc = "par_iter"
    /\ UNCHANGED other_vars
    /\ pc[t] = "backseater"
    /\ \E out \in ChildOutcomes :
        /\ backseater_result' = [backseater_result EXCEPT ![t] = out]
        /\ IF out.status = "spawn_error" THEN Return(t, Err("io::Error"))
           ELSE IF success(out)
           THEN Return(t, result_when_finished(expected_outcome[t]))
           ELSE Return(t, result_when_aborted(expected_outcome[t],
                                              out.stderr))
    /\ UNCHANGED <<content, expected_outcome, command_result, reported,
                   tests_run, tests_failed, main_pc, summary, exit_status>>

\* for_each adding to tests_failed where it should add to tests_run
CountRun_wrong_counter(t) ==
    /\ main_pc = "par_iter"
    /\ UNCHANGED other_vars
    /\ pc[t] = "returned"
    /\ result[t].kind \in {"Success", "Failure"}
    /\ tests_failed' = fetch_add(tests_failed, 1)
    /\ IF result[t].kind = "Success"
       THEN /\ reported' = [reported EXCEPT ![t] = Append(@, "OK")]
            /\ pc' = [pc EXCEPT ![t] = "done"]
       ELSE /\ pc' = [pc EXCEPT ![t] = "counted"]
            /\ UNCHANGED reported
    /\ UNCHANGED <<content, expected_outcome, command_result,
                   backseater_result, result, tests_run, main_pc, summary,
                   exit_status>>

\* lines 129-135: for_each on an Ok result counts the test and, for a
\* Success, prints it
CountRun(t) ==
    /\ main_pc = "par_iter"
    /\ UNCHANGED other_vars
    /\ pc[t] = "returned"
    /\ result[t].kind \in {"Success", "Failure"}
    /\ tests_run' = fetch_add(tests_run, 1)
    /\ IF result[t].kind = "Success"
       THEN /\ reported' = [reported EXCEPT ![t] = Append(@, "OK")]
            /\ pc' = [pc EXCEPT ![t] = "done"]
       ELSE /\ pc' = [pc EXCEPT ![t] = "counted"]
            /\ UNCHANGED reported
    /\ UNCHANGED <<content, expected_outcome, command_result,
                   backseater_result, result, tests_failed, main_pc, summary,
                   exit_status>>

\* the Failure arm without print_fail
CountFailed_unreported(t) ==
    /\ main_pc = "par_iter"
    /\ UNCHANGED other_vars
    /\ pc[t] = "counted"
    /\ tests_failed' = fetch_add(tests_failed, 1)
    /\ pc' = [pc EXCEPT ![t] = "done"]
    /\ UNCHANGED <<content, expected_outcome, command_result,
                   backseater_result, result, reported, tests_run, main_pc,
                   summary, exit_status>>

\* lines 136-139: for_each on a Failure prints it and counts the failure
CountFailed(t) ==
    /\ main_pc = "par_iter"
    /\ UNCHANGED other_vars
    /\ pc[t] = "counted"
    /\ reported' = [reported EXCEPT ![t] = Append(@, "FAILED")]
    /\ tests_failed' = fetch_add(tests_failed, 1)
    /\ pc' = [pc EXCEPT ![t] = "done"]
    /\ UNCHANGED <<content, expected_outcome, command_result,
                   backseater_result, result, tests_run, main_pc, summary,
                   exit_status>>

\* an arm `Err(_) => {}` in place of the panic: the task just ends
Panic_ignored(t) ==
    /\ main_pc = "par_iter"
    /\ UNCHANGED other_vars
    /\ pc[t] = "returned"
    /\ result[t].kind = "Err"
    /\ pc' = [pc EXCEPT ![t] = "done"]
    /\ UNCHANGED <<content, expected_outcome, command_result,
                   backseater_result, result, reported, tests_run,
                   tests_failed, main_pc, summary, exit_status>>

\* line 142: for_each on an Err result panics in the worker
Panic(t) ==
    /\ main_pc = "par_iter"
    /\ UNCHANGED other_vars
    /\ pc[t] = "returned"
    /\ result[t].kind = "Err"
    /\ pc' = [pc EXCEPT ![t] = "panicked"]
    /\ UNCHANGED <<content, expected_outcome, command_result,
                   backseater_result, result, reported, tests_run,
                   tests_failed, main_pc, summary, exit_status>>

Panicked == {t \in Files : pc[t] = "panicked"}
InFlight == {t \in Files : pc[t] \notin {"queued", "done", "panicked"}}

\* the panic of a worker is resumed on the thread that called for_each once
\* the tasks that are running have ended; tasks not yet started may be
\* dropped.  It unwinds out of main.
Unwind ==
    /\ main_pc = "par_iter"
    /\ UNCHANGED other_vars
    /\ Panicked # {}
    /\ InFlight = {}
    /\ main_pc' = "exited"
    /\ exit_status' = Exited(ExitPanic)
    /\ UNCHANGED <<pc, content, expected_outcome, command_result,
                   backseater_result, result, reported, tests_run,
                   tests_failed, summary>>

\* the summary printed as soon as no task is running, without waiting for
\* the tasks that have not started
Summary_early ==
    /\ main_pc = "par_iter"
    /\ UNCHANGED other_vars
    /\ \A t \in Files : pc[t] \in {"queued", "done"}
    /\ summary' = Append(summary,
                         <<tests_run, tests_run - tests_failed, tests_failed>>)
    /\ main_pc' = "summarized"
    /\ UNCHANGED <<pc, content, expected_outcome, command_result,
                   backseater_result, result, reported, tests_run,
                   tests_failed, exit_status>>

\* usize subtraction: below zero it panics in a build with overflow checks
\* and wraps around in one without; Underflow, which is no usize, stands
\* for both
Underflow == 0 - 1
usize_sub(a, b) == IF a >= b THEN a - b ELSE Underflow

\* lines 146-165: for_each returned; the counters are read and the summary
\* is printed
Summary ==
    /\ main_pc = "par_iter"
    /\ UNCHANGED other_vars
    /\ \A t \in Files : pc[t] = "done"
    /\ summary' = Append(summary,
                         <<tests_run, usize_sub(tests_run, tests_failed),
                           tests_failed>>)
    /\ main_pc' = "summarized"
    /\ UNCHANGED <<pc, content, expected_outcome, command_result,
                   backseater_result, result, reported, tests_run,
                   tests_failed, exit_status>>

\* main returning Ok(()) whatever the failed counter is
main_result_always_ok(failed) == ExitOk

\* the status main's return value gives the process
main_result(failed) == IF failed = 0 THEN ExitOk ELSE ExitErr

\* lines 166-170: main returns Ok(()) or Err
Exit ==
    /\ main_pc = "summarized"
    /\ UNCHANGED other_vars
    /\ main_pc' = "exited"
    /\ exit_status' = Exited(main_result(summary[Len(summary)][3]))
    /\ UNCHANGED <<pc, content, expected_outcome, command_result,
                   backseater_result, result, reported, tests_run,
                   tests_failed, summary>>

Next ==
    \/ \E t \in Files : Parse(t)
    \/ \E t \in Files : Compile(t)
    \/ \E t \in Files : Backseater(t)
    \/ \E t \in Files : CountRun(t)
    \/ \E t \in Files : CountFailed(t)
    \/ \E t \in Files : Panic(t)
    \/ Unwind
    \/ Summary
    \/ Exit

Spec == Init /\ [][Next]_vars

(* ------------------- the parser on its own inputs --------------------- *)

StringsUpTo(chars, n) == UNION {[1..k -> chars] : k \in 0..n}

MessageChars == {"a", ",", "=", " ", "\""}
Messages == StringsUpTo(MessageChars, MaxMessageLen)
MessageLists == UNION {[1..k -> Messages] : k \in 1..MaxMessages}

\* "msg1", "msg2", ...
RECURSIVE join_quoted(_)
join_quoted(messages) ==
    IF Len(messages) = 1 THEN quoted(Head(messages))
    ELSE quoted(Head(messages)) \o <<",", " ">> \o join_quoted(Tail(messages))

\* the first line `// fails_with = "msg1", ..., "msgn"`
format_directive(messages) == Directive(join_quoted(messages))

RhsChars == {"a", ",", "=", " ", "\""}

\* first lines with and without leading whitespace, marker, `fails_with`
\* and assignment, each followed or not by a second line
FirstLines ==
    { lead \o marker \o <<" ">> \o lhs \o rest \o more :
        lead \in {<<>>, <<" ">>},
        marker \in {CommentMarker, <<"/">>},
        lhs \in {fails_with, <<"f">>},
        rest \in {<<>>} \cup
                 {<<" ", "=">> \o rhs : rhs \in StringsUpTo(RhsChars, MaxRhsLen)},
        more \in {<<>>, <<"\r", "\n">> \o Directive(quoted(<<"a">>))} }

ParserInputs ==
    {format_directive(messages) : messages \in MessageLists}
    \cup FirstLines \cup {<<>>}

InitParser ==
    /\ InitRun
    /\ PipeIdle
    /\ input_file \in ParserInputs
    /\ parsed = NotParsed

\* one call of determine_expected_outcome
DetermineExpectedOutcome ==
    /\ parsed = NotParsed
    /\ parsed' = determine_expected_outcome(input_file)
    /\ UNCHANGED <<input_file, run_vars, pipe_vars>>

NextParser == DetermineExpectedOutcome

SpecParser == InitParser /\ [][NextParser]_vars

(* ------------------------------ claims -------------------------------- *)

Range(seq) == {seq[i] : i \in 1..Len(seq)}

\* needle occurs somewhere in haystack
Occurs(needle, haystack) ==
    \E i \in 0..Len(haystack), j \in 0..Len(haystack) :
        i <= j /\ SubSeq(haystack, i + 1, j) = needle

\* the map closure of t has returned
Returned(t) == pc[t] \in {"returned", "counted", "done", "panicked"}

\* a stage of t exited with a failure status
StageFailed(t) ==
    command_result[t].status = "failure"
    \/ backseater_result[t].status = "failure"

\* the stderr of the failing stage of t
FailingStderr(t) ==
    IF command_result[t].status = "failure"
    THEN command_result[t].stderr
    ELSE backseater_result[t].stderr

FailResults == {t \in Files : result[t].kind = "Failure"}

\* C1: once the summary is printed, tests_run is the number of test files
\* and tests_failed is the number of tests whose result is a Failure, and
\* the summary line shows these numbers.
C1_CountersExact ==
    summary # <<>> =>
        /\ tests_run = Cardinality(Files)
        /\ tests_failed = Cardinality(FailResults)
        /\ summary[1][1] = Cardinality(Files)
        /\ summary[1][3] = Cardinality(FailResults)

\* a summary after a run with a passed and a failed test
C1_Witness ==
    /\ summary # <<>>
    /\ \E t, u \in Files :
        result[t].kind = "Failure" /\ result[u].kind = "Success"

\* the text of t's file has a fails_with directive that does not parse
Malformed(t) ==
    pc[t] # "queued" /\ IsErr(determine_expected_outcome(content[t]))

\* C2: when the run has ended and the only errors in it were directive
\* parse errors, every test file has a result line, the files with the
\* parse error have a Failure, and the summary was printed.
C2_ParseErrorIsolated ==
    ( /\ main_pc = "exited"
      /\ \E t \in Files : Malformed(t)
      /\ \A t \in Files : result[t].kind = "Err" => Malformed(t) )
    => /\ summary # <<>>
       /\ \A t \in Files : reported[t] # <<>>
       /\ \A t \in Files : Malformed(t) => result[t].kind = "Failure"

\* C3 as claimed: the exit status is non-zero exactly when some test's
\* result is a Failure.
C3_ExitIffFail ==
    exit_status # Running => (exit_status # Exited(ExitOk) <=> FailResults # {})

\* C3 as amended: the exit status is non-zero exactly when some test's
\* result is a Failure or a task panicked, and after a summary exactly when
\* the failed counter is not zero.
C3_ExitIffFailOrAbort ==
    exit_status # Running =>
        /\ exit_status # Exited(ExitOk) <=> (FailResults # {} \/ Panicked # {})
        /\ summary # <<>> => (exit_status # Exited(ExitOk) <=> tests_failed # 0)

\* the run ended with a panic and no test has a Failure result
C3_Witness ==
    /\ exit_status = Exited(ExitPanic)
    /\ FailResults = {}
    /\ \E t \in Files : result[t].kind = "Success"

\* C4: a test that expects a failure and has a failing stage gets Success
\* exactly when every expected message occurs in the text of that stage's
\* stderr, and a Failure otherwise.
C4_PassIffAllContained ==
    \A t \in Files :
        (Returned(t) /\ StageFailed(t) /\ expected_outcome[t].tag = "Aborted")
        => /\ result[t].kind \in {"Success", "Failure"}
           /\ result[t].kind = "Success" <=>
                \A m \in Range(expected_outcome[t].error_messages) :
                    Occurs(m, from_utf8_lossy(FailingStderr(t)))

\* two messages in the order b, a in the stderr of the VM give a Success,
\* and a stderr with only one of them gives a Failure
C4_Witness ==
    /\ \E t \in Files :
        /\ Len(expected_outcome[t].error_messages) = 2
        /\ backseater_result[t].status = "failure"
        /\ result[t].kind = "Success"
    /\ \E t \in Files :
        /\ Len(expected_outcome[t].error_messages) = 2
        /\ command_result[t].status = "failure"
        /\ command_result[t].stderr = <<"a">>
        /\ result[t].kind = "Failure"

\* C5: a test whose stages all exited successfully gets Success exactly
\* when it expects the run to finish; with a fails_with directive it gets a
\* Failure.
C5_FinishedPassIffSuccessExpected ==
    \A t \in Files :
        (Returned(t) /\ backseater_result[t].status = "success")
        => /\ result[t].kind \in {"Success", "Failure"}
           /\ result[t].kind = "Success" <=> expected_outcome[t].tag = "Finished"
           /\ starts_with(content[t], Directive(<<>>))
                => result[t].kind = "Failure"

\* a pipeline that succeeded under a fails_with directive
C5_Witness ==
    \E t \in Files :
        /\ pc[t] = "done"
        /\ command_result[t].status = "success"
        /\ backseater_result[t].status = "success"
        /\ expected_outcome[t].tag = "Aborted"
        /\ result[t].kind = "Failure"

\* C6: a test that expects the run to finish and has a failing stage gets a
\* Failure whose diagnostic is the stderr of that stage.
C6_FailureCarriesStderr ==
    \A t \in Files :
        (Returned(t) /\ StageFailed(t) /\ expected_outcome[t].tag = "Finished")
        => result[t] = Failure(FailingStderr(t))

\* C7: the VM stage is run only after the compiler stage exited
\* successfully, and once a stage of a test has failed no stage of that test
\* is run again.
C7_StopAtFirstFailure ==
    /\ [](\A t \in Files :
            backseater_result[t].status # "none"
                => command_result[t].status = "success")
    /\ [][\A t \in Files :
            StageFailed(t) =>
                /\ command_result'[t] = command_result[t]
                /\ backseater_result'[t] = backseater_result[t]]_vars

\* a test whose compiler failed is done and its VM was never run
C7_Witness ==
    \E t \in Files :
        /\ pc[t] = "done"
        /\ command_result[t].status = "failure"
        /\ backseater_result[t] = NotRun

\* the text of a file up to its first line feed
FirstLineOf(text) ==
    LET ends == {i \in 1..Len(text) : text[i] = "\n"}
    IN  IF ends = {} THEN text
        ELSE SubSeq(text, 1, (CHOOSE i \in ends : \A j \in ends : i <= j) - 1)

\* text has the form `fails_with = ...`
IsAssignment(text) ==
    \E i \in 1..Len(text) :
        text[i] = "=" /\ trim(SubSeq(text, 1, i - 1)) = fails_with

\* line carries a fails_with directive: the comment marker, then an
\* assignment to fails_with
CarriesDirective(line) ==
    /\ starts_with(line, CommentMarker)
    /\ IsAssignment(SubSeq(line, Len(CommentMarker) + 1, Len(line)))

\* the text after the first `=` of a line that carries a directive
AssignedText(line) == SubSeq(line, find(line, "=") + 1, Len(line))

\* message has its opening and its closing quote
ProperlyQuoted(message) ==
    Len(message) >= 2 /\ message[1] = "\"" /\ message[Len(message)] = "\""

\* C8: the directive formatted from a list of messages parses to the
\* expectation of a failure with exactly these messages, in their order.
C8_FormatParseRoundTrip ==
    \A messages \in MessageLists :
        (parsed # NotParsed /\ input_file = format_directive(messages))
        => parsed = Aborted(messages)

\* C9 as claimed: a file whose first line does not begin with the comment
\* marker, or has no fails_with assignment after it, parses to Finished.
C9_NoDirectiveIsFinished ==
    (parsed # NotParsed /\ ~CarriesDirective(FirstLineOf(input_file)))
    => parsed = Finished

\* C9 as amended: a file whose first line, with the whitespace around it
\* removed, does not begin with the comment marker, or has no fails_with
\* assignment after it, parses to Finished.
C9_NoDirectiveAfterTrimIsFinished ==
    (parsed # NotParsed /\ ~CarriesDirective(trim(FirstLineOf(input_file))))
    => parsed = Finished

\* a comment with an assignment to another name than fails_with, followed
\* by a second line that has a directive, was parsed
C9_Witness ==
    /\ parsed = Finished
    /\ starts_with(input_file, CommentMarker)
    /\ \E i \in 1..Len(FirstLineOf(input_file)) : input_file[i] = "="
    /\ Len(FirstLineOf(input_file)) < Len(input_file)

\* C10: a directive in which some comma-separated message lacks its opening
\* or its closing quote parses to an error.
C10_UnquotedMessageIsError ==
    LET line == trim(FirstLineOf(input_file))
    IN  ( /\ parsed # NotParsed
          /\ CarriesDirective(line)
          /\ \E m \in Range(split(AssignedText(line), ",")) :
                ~ProperlyQuoted(trim(m)) )
        => IsErr(parsed)


\* the compiler or the VM of t could not be spawned
SpawnError(t) ==
    command_result[t].status = "spawn_error"
    \/ backseater_result[t].status = "spawn_error"

\* the tests that for_each counted
Counted == {t \in Files : pc[t] \in {"counted", "done"}}

\* C11: a test whose compiler or VM could not be spawned has an Err result
\* and never a result line, it is in neither counter, the summary is never
\* printed and the process ends with the status of a panic.
C11_SpawnErrorIsFatal ==
    \A t \in Files :
        SpawnError(t) =>
            /\ result[t].kind = "Err"
            /\ reported[t] = <<>>
            /\ t \notin Counted
            /\ tests_run = Cardinality(Counted)
            /\ tests_failed <= Cardinality(FailResults \ {t})
            /\ summary = <<>>
            /\ main_pc # "summarized"
            /\ main_pc = "exited" => exit_status = Exited(ExitPanic)

\* the run ended with a panic after a spawn error, next to a test that
\* passed
C11_Witness ==
    /\ exit_status = Exited(ExitPanic)
    /\ \E t, u \in Files :
        /\ backseater_result[t].status = "spawn_error"
        /\ reported[u] = <<"OK">>


\* C13 as claimed: when the run has ended, every test file has run and has
\* exactly one result line.
C13_EveryTestReportedOnce ==
    main_pc = "exited" =>
        \A t \in Files : pc[t] = "done" /\ Len(reported[t]) = 1

\* C13 as amended: no test file ever has more than one result line, no
\* stage of a test runs twice, and the run is never stuck before main
\* exits; a test that is done has run and has exactly one result line, and
\* when main has left the par_iter without a panic every test file is done.
C13_ReportedOnceUnlessAborted ==
    /\ [](\A t \in Files :
            /\ Len(reported[t]) <= 1
            /\ pc[t] = "done" =>
                /\ Len(reported[t]) = 1
                /\ command_result[t].status \in {"success", "failure"})
    /\ []((main_pc # "par_iter" /\ Panicked = {})
            => \A t \in Files : pc[t] = "done")
    /\ [](main_pc # "exited" => ENABLED Next)
    /\ [][\A t \in Files :
            /\ pc[t] # "queued" => pc'[t] # "queued"
            /\ command_result[t] # NotRun
                => command_result'[t] = command_result[t]
            /\ backseater_result[t] # NotRun
                => backseater_result'[t] = backseater_result[t]
            /\ reported[t] # <<>> => reported'[t] = reported[t]]_vars

\* main has exited after a run in which a test passed and a test failed,
\* each with its one result line
C13_Witness ==
    /\ main_pc = "exited"
    /\ \A t \in Files : pc[t] = "done"
    /\ \E t, u \in Files :
        reported[t] = <<"FAILED">> /\ reported[u] = <<"OK">>


\* what decides the result of t: whether its file could be read, the text
\* of the file, and the status and stderr of its stages
OwnInputs(t) ==
    <<pc[t] # "queued", content[t], command_result[t], backseater_result[t]>>

C18_SummaryAfterAllWorkers ==
    /\ [](Len(summary) <= 1)
    /\ [](summary # <<>> =>
            /\ \A t \in Files : pc[t] = "done" /\ Len(reported[t]) = 1
            /\ summary[1][1] = tests_run
            /\ summary[1][3] = tests_failed)
    /\ [][summary # <<>> =>
            UNCHANGED <<summary, tests_run, tests_failed, reported, pc>>]_vars

\* main has exited after the summary of a run in which every test failed
C18_Witness ==
    /\ main_pc = "exited"
    /\ Len(summary) = 1
    /\ summary[1][3] = Cardinality(Files)

\* C19: tests_failed is never above tests_run and neither counter ever
\* goes down, so the subtraction of the summary does not underflow and the
\* three numbers of the summary line add up.
C19_FailedAtMostRun ==
    /\ [](tests_failed <= tests_run)
    /\ [](summary # <<>> =>
            /\ summary[1][2] # Underflow
            /\ summary[1][2] + summary[1][3] = summary[1][1])
    /\ [][tests_run' >= tests_run /\ tests_failed' >= tests_failed]_vars

\* a test was counted in tests_run and its failure is not yet counted, while
\* another failure is already in both counters
C19_Witness ==
    /\ tests_run = 2
    /\ tests_failed = 1
    /\ \E t \in Files : pc[t] = "counted"


\* C17: every expectation of a failure that the parser returns has at least
\* one message and no empty message.
C17_MessagesNonEmpty ==
    parsed.tag = "Aborted" =>
        /\ parsed.error_messages # <<>>
        /\ \A i \in 1..Len(parsed.error_messages) :
            parsed.error_messages[i] # <<>>

\* ---------------------------------------------------------------------
\* One call of child_with_pipe_args: the child, the thread that writes its
\* stdin, and wait_with_output, which reads its stdout and stderr.

Streams == {"stdout", "stderr"}
ChildKinds == {"reads_to_end", "closes_stdin"}
ExitStatuses == {"success", "failure"}
InputByte == "x"
OutputByte(s) == IF s = "stderr" THEN "a" ELSE "o"
CompilerOutputs == {[i \in 1..n |-> InputByte] : n \in 0..MaxInput}
VmExpectations == {Finished, Aborted(<<<<"a">>>>)}

InitPipe ==
    /\ InitRun
    /\ ParserIdle
    /\ harness = "spawn"
    /\ unwritten \in CompilerOutputs
    /\ writer = "unspawned"
    /\ pipe = EmptyPipes
    /\ child = NoChild
    /\ captured = NothingCaptured
    /\ vm_expected \in VmExpectations
    /\ vm_result = NoResult

full(s) == Len(pipe[s]) >= PipeCapacity

\* Command::spawn fails and `?` returns the error
SpawnFails ==
    /\ harness = "spawn"
    /\ harness' = "returned"
    /\ vm_result' = Err("io::Error")
    /\ UNCHANGED <<unwritten, writer, pipe, child, captured, vm_expected>>
    /\ UNCHANGED <<run_vars, parser_vars>>

\* Command::spawn succeeds, the writer thread is started and detached, and
\* the caller goes on to wait_with_output
SpawnChild ==
    /\ harness = "spawn"
    /\ \E k \in ChildKinds, s \in Streams, n \in 0..MaxBurst :
        child' = [pc |-> "running", kind |-> k, stdin_open |-> TRUE,
                  stream |-> s, left |-> n, status |-> "none"]
    /\ writer' = "running"
    /\ harness' = "wait_with_output"
    /\ UNCHANGED <<unwritten, pipe, captured, vm_expected, vm_result>>
    /\ UNCHANGED <<run_vars, parser_vars>>

\* write_all moves one more byte into the stdin pipe; it blocks while the
\* pipe is full
WriterWrite ==
    /\ writer = "running"
    /\ unwritten # <<>>
    /\ child.stdin_open
    /\ ~full("stdin")
    /\ pipe' = [pipe EXCEPT !.stdin = Append(@, Head(unwritten))]
    /\ unwritten' = Tail(unwritten)
    /\ UNCHANGED <<harness, writer, child, captured, vm_expected, vm_result>>
    /\ UNCHANGED <<run_vars, parser_vars>>

\* write_all fails with a broken pipe and expect panics in the writer thread
WriterPanic ==
    /\ writer = "running"
    /\ unwritten # <<>>
    /\ ~child.stdin_open
    /\ writer' = "panicked"
    /\ UNCHANGED <<harness, unwritten, pipe, child, captured, vm_expected,
                   vm_result>>
    /\ UNCHANGED <<run_vars, parser_vars>>

\* write_all returns Ok; the closure ends and drops stdin, which closes the
\* write end of the pipe
WriterFinish ==
    /\ writer = "running"
    /\ unwritten = <<>>
    /\ writer' = "finished"
    /\ UNCHANGED <<harness, unwritten, pipe, child, captured, vm_expected,
                   vm_result>>
    /\ UNCHANGED <<run_vars, parser_vars>>

\* the child reads one byte of its input and decides what to print next
ChildRead ==
    /\ child.pc = "running"
    /\ child.stdin_open
    /\ child.left = 0
    /\ pipe.stdin # <<>>
    /\ pipe' = [pipe EXCEPT !.stdin = Tail(@)]
    /\ \E s \in Streams, n \in 0..MaxBurst :
        child' = [child EXCEPT !.stream = s, !.left = n]
    /\ UNCHANGED <<harness, unwritten, writer, captured, vm_expected,
                   vm_result>>
    /\ UNCHANGED <<run_vars, parser_vars>>

\* the child prints one byte; it blocks while that pipe is full
ChildWrite ==
    /\ child.pc = "running"
    /\ child.left > 0
    /\ ~full(child.stream)
    /\ pipe' = [pipe EXCEPT ![child.stream] = Append(@, OutputByte(child.stream))]
    /\ child' = [child EXCEPT !.left = @ - 1]
    /\ UNCHANGED <<harness, unwritten, writer, captured, vm_expected,
                   vm_result>>
    /\ UNCHANGED <<run_vars, parser_vars>>

\* a child that does not read its input to the end closes its stdin
ChildCloseStdin ==
    /\ child.pc = "running"
    /\ child.kind = "closes_stdin"
    /\ child.stdin_open
    /\ child.left = 0
    /\ child' = [child EXCEPT !.stdin_open = FALSE]
    /\ pipe' = [pipe EXCEPT !.stdin = <<>>]
    /\ UNCHANGED <<harness, unwritten, writer, captured, vm_expected,
                   vm_result>>
    /\ UNCHANGED <<run_vars, parser_vars>>

\* the child sees the end of its input once the pipe is empty and its write
\* end is closed
end_of_input == pipe.stdin = <<>> /\ writer \in {"finished", "panicked"}

\* the child exits: after the end of its input, or after it closed its stdin
ChildExit ==
    /\ child.pc = "running"
    /\ child.left = 0
    /\ IF child.kind = "reads_to_end" THEN end_of_input ELSE ~child.stdin_open
    /\ \E st \in ExitStatuses :
        child' = [child EXCEPT !.pc = "exited", !.stdin_open = FALSE,
                               !.status = st]
    /\ pipe' = [pipe EXCEPT !.stdin = <<>>]
    /\ UNCHANGED <<harness, unwritten, writer, captured, vm_expected,
                   vm_result>>
    /\ UNCHANGED <<run_vars, parser_vars>>

\* the writer runs on its own thread, so the caller reads the child's output
\* while the input is still being written
may_drain_after_write == writer \in {"finished", "panicked"}
may_drain == TRUE

\* wait_with_output reads stdout and stderr, whichever has data
HarnessRead(s) ==
    /\ harness = "wait_with_output"
    /\ may_drain
    /\ pipe[s] # <<>>
    /\ captured' = [captured EXCEPT ![s] = Append(@, Head(pipe[s]))]
    /\ pipe' = [pipe EXCEPT ![s] = Tail(@)]
    /\ UNCHANGED <<harness, unwritten, writer, child, vm_expected, vm_result>>
    /\ UNCHANGED <<run_vars, parser_vars>>

vm_output == Output(child.status, captured.stderr)

\* wait_with_output returns once the child has exited and both streams are
\* read to the end; the thread is not joined; the result is evaluated
HarnessReturn ==
    /\ harness = "wait_with_output"
    /\ may_drain
    /\ child.pc = "exited"
    /\ pipe.stdout = <<>>
    /\ pipe.stderr = <<>>
    /\ harness' = "returned"
    /\ vm_result' = IF success(vm_output)
                    THEN result_when_finished(vm_expected)
                    ELSE result_when_aborted(vm_expected, vm_output.stderr)
    /\ UNCHANGED <<unwritten, writer, pipe, child, captured, vm_expected>>
    /\ UNCHANGED <<run_vars, parser_vars>>

WriterStep == WriterWrite \/ WriterPanic \/ WriterFinish
ChildStep == ChildRead \/ ChildWrite \/ ChildCloseStdin \/ ChildExit
HarnessStep ==
    \/ SpawnFails
    \/ SpawnChild
    \/ \E s \in Streams : HarnessRead(s)
    \/ HarnessReturn

NextPipe ==
    \/ SpawnFails
    \/ SpawnChild
    \/ WriterWrite
    \/ WriterPanic
    \/ WriterFinish
    \/ ChildRead
    \/ ChildWrite
    \/ ChildCloseStdin
    \/ ChildExit
    \/ \E s \in Streams : HarnessRead(s)
    \/ HarnessReturn

SpecPipe == InitPipe /\ [][NextPipe]_vars

\* the scheduler runs every thread and the child that can take a step
SpecPipeFair ==
    /\ InitPipe
    /\ [][NextPipe]_vars
    /\ WF_vars(WriterStep)
    /\ WF_vars(ChildStep)
    /\ WF_vars(HarnessStep)

\* the writer thread is inside write_all and the stdin pipe is full
writer_blocked ==
    /\ writer = "running"
    /\ unwritten # <<>>
    /\ child.stdin_open
    /\ full("stdin")

\* the child is inside a write to a full stdout or stderr pipe
child_blocked ==
    /\ child.pc = "running"
    /\ child.left > 0
    /\ full(child.stream)

\* C12: when the write to the child's stdin has failed, the result of the
\* test is a failure, whatever the exit status of the child.
C12_WriteErrorIsFailure ==
    (harness = "returned" /\ writer = "panicked") => vm_result.kind = "Failure"

\* C15: child_with_pipe_args returns the result of the stage only after the
\* writer has ended, with or without an error.
C15_WriterJoinedBeforeReturn ==
    (harness = "returned" /\ child.pc # "unspawned") =>
        writer \in {"finished", "panicked"}

\* C16: a piped stage never deadlocks: while the call has not returned some
\* step can be taken, the writer and the child are never both blocked on
\* full pipes with nobody reading, and the call returns in the end.
C16_NoPipeDeadlock ==
    /\ [](harness # "returned" => ENABLED NextPipe)
    /\ [](writer_blocked /\ child_blocked => ENABLED HarnessStep)
    /\ <>(harness = "returned")

\* a child that reads its input to the end is blocked on a full output pipe
\* while the writer is blocked on the full stdin pipe
C16_Witness ==
    /\ child.kind = "reads_to_end"
    /\ writer_blocked
    /\ child_blocked

====
